---- MODULE Spec2Model ----
(***************************************************************************)
(* Verification model of the compute-engine kernel:                        *)
(*   - the rule rewriter of rules.ts (applyRule, replace);                 *)
(*   - the argument validators (checkArity, checkNumericArgs,              *)
(*     validateArguments);                                                 *)
(*   - the canonical comparison table (compare, equal, less, ...);         *)
(*   - normalizeFlags, isSymbolDefinition and isFunctionDefinition;        *)
(*   - canonicalAngle and getPiTerm;                                       *)
(*   - the expansion engine of expand.ts (choose, powers, expandPower,     *)
(*     distribute).                                                        *)
(* Every component has its own specification (SpecReplace, SpecArity,      *)
(* SpecNumeric, SpecValidate, SpecCompare, SpecFlags, SpecDefinitions,     *)
(* SpecAngle, SpecExpand) over the same initial state; the variables of    *)
(* the other components stay idle.                                         *)
(***************************************************************************)
EXTENDS Integers, Sequences, FiniteSets, TLC

VARIABLES
    \* ---- replace(ce, rules, expr) of rules.ts
    pc,          \* position in replace: "idle", "while", "for", "done"
    rules,       \* the RuleSet argument, in iteration (insertion) order
    input,       \* the expr argument as given
    expr,        \* the local variable expr (the current root)
    idx,         \* position of the for-of iteration over rules (1-based)
    done,        \* the local variable done
    passes,      \* number of passes of the while loop started so far
    lastFired,   \* history: index of the rule applied last (0: none yet)
    lastRoot,    \* history: the root the last applied rule was applied to
    lastPos,     \* history: index of the rule that had produced lastRoot (0: the input)
    \* ---- the argument validators (checkArity, checkNumericArgs, validateArguments)
    fn,          \* the validator that was called ("": none yet)
    strict,      \* ce.strict
    ops,         \* the ops argument
    count,       \* the count argument / option (-1: undefined)
    flattenHead, \* the flatten option of checkNumericArgs ("": undefined)
    signature,   \* the signature argument of validateArguments
    lazy,        \* the lazy argument of validateArguments
    threadable,  \* the threadable argument of validateArguments
    returned,    \* the value returned: [null |-> BOOLEAN, xs |-> the list]
    inferCalls,  \* the calls x.infer(t) made: <<operand position, element (0: the operand), t>>
    \* ---- engine.compare(a, b) and engine.equal(a, b)
    cfn,         \* the comparison that was called ("": none yet)
    ca,          \* its first argument
    cb,          \* its second argument
    cres,        \* the value compare returned
    eres,        \* the value the derived predicate returned ("true", "false", "undefined")
    \* ---- normalizeFlags(flags)
    ffn,         \* "normalizeFlags" once it was called ("": not yet)
    flagsGiven,  \* history: the flags argument as it was at the call
    flags,       \* the object passed as flags, as it is after the call
    normalized,  \* the value returned
    \* ---- isSymbolDefinition(def), isFunctionDefinition(def)
    def,         \* the record both classifiers are asked about
    isSymbol,    \* what isSymbolDefinition(def) did ("": not called yet)
    isFunction,  \* what isFunctionDefinition(def) did ("": not called yet)
    \* ---- canonicalAngle(x)
    gfn,         \* "canonicalAngle" once it was called ("": not yet)
    angularUnit, \* ce.angularUnit
    angle,       \* the argument x
    canonical,   \* the value returned
    \* ---- expand.ts: choose, powers, expandPower, distribute
    binomials,   \* the module-level table of rows of Pascal's triangle
    efn,         \* the function called last ("": none yet)
    eargs,       \* its arguments
    eret         \* the value it returned

rvars == <<pc, rules, input, expr, idx, done, passes, lastFired, lastRoot, lastPos>>
avars == <<fn, strict, ops, count, flattenHead, signature, lazy, threadable, returned, inferCalls>>

cvars == <<cfn, ca, cb, cres, eres>>

fvars == <<ffn, flagsGiven, flags, normalized>>
dvars == <<def, isSymbol, isFunction>>
gvars == <<gfn, angularUnit, angle, canonical>>
evars == <<binomials, efn, eargs, eret>>

vars == <<rvars, avars, cvars, fvars, dvars, gvars, evars>>

(***************************************************************************)
(* Bounds of the model.                                                    *)
(***************************************************************************)
MaxRules == 3       \* rules in a rule set
MaxDepth == 3       \* depth of an expression built by a rewrite
MaxPasses == 4      \* passes of the while loop of replace
MaxArityOps == 3    \* operands given to checkArity
MaxNumOps == 3      \* operands given to checkNumericArgs
MaxSigOps == 3      \* operands given to validateArguments
MaxCount == 3       \* the count argument of checkArity and checkNumericArgs
MaxChoose == 10     \* the argument n of choose
MaxExp == 9         \* the exponent given to powers and expandPower
MaxTerms == 3       \* the argument n of powers

(***************************************************************************)
(* Expressions (MathJSON): a symbol or a function application.             *)
(***************************************************************************)
Sym(name) == [k |-> "sym", h |-> name, a |-> <<>>]
Fn(head, args) == [k |-> "fn", h |-> head, a |-> args]
Null == [k |-> "null", h |-> "", a |-> <<>>]

\* The pattern variables the rule compiler produces (the values of SUBS).
SUBS == {"_x", "_y"}

Max(m, n) == IF m >= n THEN m ELSE n
Min(m, n) == IF m <= n THEN m ELSE n

RECURSIVE Depth(_)
Depth(e) ==
    IF Len(e.a) = 0 THEN 1
    ELSE 1 + Depth(e.a[CHOOSE i \in 1..Len(e.a) :
                     \A j \in 1..Len(e.a) : Depth(e.a[i]) >= Depth(e.a[j])])

(***************************************************************************)
(* match(pattern, expr): structural unification.  A substitution is a set  *)
(* of <<variable, expression>> pairs.                                      *)
(***************************************************************************)
NoMatch == [ok |-> FALSE, sub |-> {}]

IsBound(s, v) == \E b \in s : b[1] = v
Binding(s, v) == (CHOOSE b \in s : b[1] = v)[2]

RECURSIVE matchAcc(_, _, _), matchArgs(_, _, _, _)
matchAcc(p, e, s) ==
    IF p.k = "sym" /\ p.h \in SUBS
    THEN IF IsBound(s, p.h)
         THEN IF Binding(s, p.h) = e THEN [ok |-> TRUE, sub |-> s] ELSE NoMatch
         ELSE [ok |-> TRUE, sub |-> s \cup {<<p.h, e>>}]
    ELSE IF p.k = "sym"
    THEN IF e = p THEN [ok |-> TRUE, sub |-> s] ELSE NoMatch
    ELSE IF e.k = "fn" /\ e.h = p.h /\ Len(e.a) = Len(p.a)
    THEN matchArgs(p, e, 1, s)
    ELSE NoMatch

matchArgs(p, e, i, s) ==
    IF i > Len(p.a) THEN [ok |-> TRUE, sub |-> s]
    ELSE LET r == matchAcc(p.a[i], e.a[i], s)
         IN  IF r.ok THEN matchArgs(p, e, i + 1, r.sub) ELSE NoMatch

match(pattern, e) == matchAcc(pattern, e, {})

RECURSIVE substitute(_, _)
substitute(e, s) ==
    IF e.k = "sym"
    THEN IF IsBound(s, e.h) THEN Binding(s, e.h) ELSE e
    ELSE Fn(e.h, [i \in 1..Len(e.a) |-> substitute(e.a[i], s)])

(***************************************************************************)
(* Rules: [lhs, rhs, condition].  A condition is a predicate on the        *)
(* substitution, or absent ("undefined").                                  *)
(***************************************************************************)
Rule(l, r, c) == [lhs |-> l, rhs |-> r, condition |-> c]

\* The guards used by the rule catalogue: condition(ce, sub).
condition(c, s) ==
    CASE c = "xIsA" -> IsBound(s, "_x") /\ Binding(s, "_x") = Sym("a")
      [] c = "never" -> FALSE
      [] OTHER -> TRUE

X == Sym("_x")
Y == Sym("_y")

RuleCatalogue ==
    { Rule(Fn("f", <<X>>), Fn("g", <<X>>), "undefined"),
      Rule(Fn("g", <<X>>), Fn("h", <<X>>), "undefined"),
      Rule(Fn("g", <<X>>), Fn("f", <<X>>), "undefined"),
      Rule(Fn("f", <<X>>), X, "xIsA"),
      Rule(Fn("p", <<X, X>>), X, "undefined"),
      Rule(Fn("f", <<X>>), Fn("f", <<Fn("f", <<X>>)>>), "undefined"),
      Rule(Fn("h", <<X>>), Sym("b"), "never") }

RuleSets == UNION { [1..n -> RuleCatalogue] : n \in 0..MaxRules }

A == Sym("a")
B == Sym("b")

Inputs ==
    { A, Fn("f", <<A>>), Fn("g", <<A>>), Fn("h", <<A>>), Fn("f", <<B>>),
      Fn("f", <<Fn("f", <<A>>)>>), Fn("f", <<Fn("g", <<A>>)>>),
      Fn("h", <<Fn("f", <<A>>)>>), Fn("p", <<A, A>>), Fn("p", <<A, B>>) }

(***************************************************************************)
(* applyRule(ce, [lhs, rhs, condition], expr)                              *)
(***************************************************************************)
\* Mutant: the guard of the rule is not evaluated.
applyRuleNoGuard(rule, e) ==
    LET sub == match(rule.lhs, e)
    IN  IF ~sub.ok THEN Null ELSE substitute(rule.rhs, sub.sub)

\* Mutant: a rule that does not apply at the root is applied to the operands.
RECURSIVE applyRuleDeep(_, _)
applyRuleDeep(rule, e) ==
    LET sub == match(rule.lhs, e)
    IN  IF sub.ok /\ (rule.condition = "undefined" \/ condition(rule.condition, sub.sub))
        THEN substitute(rule.rhs, sub.sub)
        ELSE IF \E i \in 1..Len(e.a) : applyRuleDeep(rule, e.a[i]) # Null
        THEN Fn(e.h, [i \in 1..Len(e.a) |->
                        IF applyRuleDeep(rule, e.a[i]) # Null
                        THEN applyRuleDeep(rule, e.a[i]) ELSE e.a[i]])
        ELSE Null

applyRule(rule, e) ==
    LET sub == match(rule.lhs, e)
    IN  IF ~sub.ok THEN Null
        ELSE IF rule.condition # "undefined" /\ ~condition(rule.condition, sub.sub)
        THEN Null
        ELSE substitute(rule.rhs, sub.sub)

(***************************************************************************)
(* replace(ce, rules, expr): the while loop and the for-of loop in it.     *)
(***************************************************************************)
\* Mutant: the scan restarts from the first rule when a rule fired.
NextIndexRestart(i, fired) == IF fired THEN 1 ELSE i + 1

\* The for-of iteration moves to the next rule, whether the rule fired or not.
NextIndex(i, fired) == i + 1

Call ==
    /\ pc = "idle"
    /\ fn = ""
    /\ \E rs \in RuleSets, e \in Inputs :
          /\ rules' = rs
          /\ input' = e
          /\ expr' = e
    /\ done' = FALSE
    /\ pc' = "while"
    /\ UNCHANGED <<idx, passes, lastFired, lastRoot, lastPos>>
    /\ UNCHANGED <<avars, cvars, fvars, dvars, gvars, evars>>

WhileTest ==
    /\ pc = "while"
    /\ IF ~done
       THEN /\ passes < MaxPasses
            /\ done' = TRUE
            /\ idx' = 1
            /\ passes' = passes + 1
            /\ pc' = "for"
       ELSE /\ pc' = "done"
            /\ UNCHANGED <<done, idx, passes>>
    /\ UNCHANGED <<rules, input, expr, lastFired, lastRoot, lastPos>>
    /\ UNCHANGED <<avars, cvars, fvars, dvars, gvars, evars>>

\* The for body without the reset of the done flag.
ForStepKeepDone ==
    /\ pc = "for"
    /\ idx <= Len(rules)
    /\ LET result == applyRule(rules[idx], expr)
       IN  /\ IF result # Null
              THEN /\ Depth(result) <= MaxDepth
                   /\ done' = done
                   /\ expr' = result
                   /\ lastFired' = idx
                   /\ lastRoot' = expr
                   /\ lastPos' = lastFired
              ELSE UNCHANGED <<done, expr, lastFired, lastRoot, lastPos>>
           /\ idx' = NextIndex(idx, result # Null)
    /\ UNCHANGED <<pc, rules, input, passes>>
    /\ UNCHANGED <<avars, cvars, fvars, dvars, gvars, evars>>

ForStep ==
    /\ pc = "for"
    /\ idx <= Len(rules)
    /\ LET result == applyRule(rules[idx], expr)
       IN  /\ IF result # Null
              THEN /\ Depth(result) <= MaxDepth
                   /\ done' = FALSE
                   /\ expr' = result
                   /\ lastFired' = idx
                   /\ lastRoot' = expr
                   /\ lastPos' = lastFired
              ELSE UNCHANGED <<done, expr, lastFired, lastRoot, lastPos>>
           /\ idx' = NextIndex(idx, result # Null)
    /\ UNCHANGED <<pc, rules, input, passes>>
    /\ UNCHANGED <<avars, cvars, fvars, dvars, gvars, evars>>

ForEnd ==
    /\ pc = "for"
    /\ idx > Len(rules)
    /\ pc' = "while"
    /\ UNCHANGED <<rules, input, expr, idx, done, passes, lastFired, lastRoot, lastPos>>
    /\ UNCHANGED <<avars, cvars, fvars, dvars, gvars, evars>>

IdleReplace ==
    /\ pc = "idle"
    /\ rules = <<>>
    /\ input = Null
    /\ expr = Null
    /\ idx = 0
    /\ done = FALSE
    /\ passes = 0
    /\ lastFired = 0
    /\ lastRoot = Null
    /\ lastPos = 0

(***************************************************************************)
(* Boxed expressions as the validators see them: the properties they read. *)
(***************************************************************************)
Boxed ==
    [ id |-> "", operator |-> "", ops |-> <<>>, isValid |-> TRUE,
      isNumber |-> FALSE, symbol |-> "", defined |-> FALSE, type |-> "unknown",
      isCollection |-> FALSE, elems |-> <<>>, inferredType |-> FALSE,
      inferredSignature |-> FALSE, valueOperator |-> "",
      code |-> "", expected |-> "" ]

\* 7: a number literal
OpNum == [Boxed EXCEPT !.id = "7", !.isNumber = TRUE, !.type = "integer"]
\* a complex literal
OpComplex == [Boxed EXCEPT !.id = "2+3i", !.isNumber = TRUE, !.type = "complex"]
\* x: a symbol with no definition
OpX == [Boxed EXCEPT !.id = "x", !.symbol = "x"]
\* "hello": a string
OpStr == [Boxed EXCEPT !.id = "'hello'", !.type = "string"]
\* List(1, 2): a finite indexable collection of numbers (elems: isNumber of each element)
OpList == [Boxed EXCEPT !.id = "List(1,2)", !.operator = "List", !.type = "list",
                        !.isCollection = TRUE, !.elems = <<TRUE, TRUE>>]
\* List(1, "a"): a collection with an element that is not a number
OpListBad == [Boxed EXCEPT !.id = "List(1,'a')", !.operator = "List", !.type = "list",
                           !.isCollection = TRUE, !.elems = <<TRUE, FALSE>>]
\* y: a symbol whose definition has an inferred type, any
OpInferred == [Boxed EXCEPT !.id = "y", !.symbol = "y", !.defined = TRUE,
                            !.type = "any", !.inferredType = TRUE]
\* g(x): a function whose definition has an inferred signature, of result any
OpInferredFn == [Boxed EXCEPT !.id = "g(x)", !.operator = "g", !.type = "any",
                              !.inferredSignature = TRUE]
\* Hold(z)
OpHold == [Boxed EXCEPT !.id = "Hold(z)", !.operator = "Hold", !.type = "expression"]
\* an error node given as an operand
OpErr == [Boxed EXCEPT !.id = "Error('e')", !.operator = "Error", !.isValid = FALSE,
                       !.type = "error"]
\* Sequence(7, "hello")
OpSeq == [Boxed EXCEPT !.id = "Sequence(7,'hello')", !.operator = "Sequence",
                       !.ops = <<OpNum, OpStr>>, !.type = "tuple"]
\* Add(7, x)
OpAdd == [Boxed EXCEPT !.id = "Add(7,x)", !.operator = "Add", !.ops = <<OpNum, OpX>>,
                       !.isNumber = TRUE, !.type = "number"]

\* ce.error(code, arg.toString()) and ce.typeError(expected, actual, arg)
Error(c, arg) ==
    [Boxed EXCEPT !.id = arg, !.operator = "Error", !.isValid = FALSE,
                  !.type = "error", !.code = c]
typeError(exp, op) ==
    [Boxed EXCEPT !.id = op.id, !.operator = "Error", !.isValid = FALSE,
                  !.type = "error", !.code = "type-mismatch", !.expected = exp]

IsError(x) == x.operator = "Error" /\ x.code # ""

\* isSubtype(lhs, rhs): lhs is a subtype of rhs.
isSubtype(lhs, rhs) ==
    \/ lhs = rhs
    \/ rhs = "any"
    \/ lhs = "integer" /\ rhs \in {"real", "number"}
    \/ lhs = "real" /\ rhs = "number"
    \/ lhs = "complex" /\ rhs = "number"

\* type.matches(t)
matches(type, t) == isSubtype(type, t)

isFiniteIndexableCollection(x) == x.isCollection

\* flatten(ops, operator): splice the operands of Sequence operands, and of the
\* operands whose operator is the one given.
RECURSIVE flatten(_, _)
flatten(xs, operator) ==
    IF xs = <<>> THEN <<>>
    ELSE LET x == Head(xs)
         IN  (IF x.operator = "Sequence" \/ (operator # "" /\ x.operator = operator)
              THEN flatten(x.ops, operator)
              ELSE <<x>>) \o flatten(Tail(xs), operator)

SeqsUpTo(S, n) == UNION { [1..m -> S] : m \in 0..n }

(***************************************************************************)
(* checkArity(ce, ops, count)                                              *)
(***************************************************************************)
\* Mutant: the operands in excess are dropped instead of being flagged.
checkArityTruncate(isStrict, xs0, n) ==
    LET xs == flatten(xs0, "")
    IN  IF ~isStrict THEN xs
        ELSE IF Len(xs) = n THEN xs
        ELSE [i \in 1..n |-> IF i <= Len(xs) THEN xs[i] ELSE Error("missing", "")]

checkArity(isStrict, xs0, n) ==
    LET xs == flatten(xs0, "")
    IN  IF ~isStrict THEN xs
        ELSE IF Len(xs) = n THEN xs
        ELSE [i \in 1..Max(n, Len(xs)) |->
                IF i <= Min(n, Len(xs)) THEN xs[i]
                ELSE IF i <= n THEN Error("missing", "")
                ELSE Error("unexpected-argument", xs[i].id)]

ArityOperands == {OpNum, OpX, OpSeq, OpErr}

CallCheckArity ==
    /\ fn = ""
    /\ pc = "idle"
    /\ \E s \in BOOLEAN, xs \in SeqsUpTo(ArityOperands, MaxArityOps), n \in 0..MaxCount :
          /\ strict' = s
          /\ ops' = xs
          /\ count' = n
          /\ returned' = [null |-> FALSE, xs |-> checkArity(s, xs, n)]
    /\ fn' = "checkArity"
    /\ UNCHANGED <<flattenHead, signature, lazy, threadable, inferCalls>>
    /\ UNCHANGED <<rvars, cvars, fvars, dvars, gvars, evars>>

NoSignature == [kind |-> "", args |-> <<>>, optArgs |-> <<>>, restArg |-> ""]

IdleArgs ==
    /\ fn = ""
    /\ strict = TRUE
    /\ ops = <<>>
    /\ count = -1
    /\ flattenHead = ""
    /\ signature = NoSignature
    /\ lazy = FALSE
    /\ threadable = FALSE
    /\ returned = [null |-> TRUE, xs |-> <<>>]
    /\ inferCalls = {}

(***************************************************************************)
(* checkNumericArgs(ce, ops, options)                                      *)
(***************************************************************************)
\* The type the operands are inferred to: number when one of them may be complex.
numericInferredType(xs) ==
    IF \E i \in 1..Len(xs) : isSubtype("complex", xs[i].type) THEN "number" ELSE "real"

\* The infer calls of the fast path: every operand that is not a collection.
fastPathInfer(xs) ==
    { <<i, 0, numericInferredType(xs)>> :
        i \in { j \in 1..Len(xs) : ~isFiniteIndexableCollection(xs[j]) } }

\* The infer calls on a list of checked operands: the elements of a collection,
\* the operand itself otherwise.
numericInfer(xs) ==
    UNION { IF isFiniteIndexableCollection(xs[i])
            THEN { <<i, j, numericInferredType(xs)>> : j \in 1..Len(xs[i].elems) }
            ELSE { <<i, 0, numericInferredType(xs)>> } : i \in 1..Len(xs) }

\* Mutant: the inference is made whether the operands are valid or not.
numericCommitAlways(isValid, xs) == numericInfer(xs)

\* "Only if all arguments are valid, we infer the domain of the arguments"
numericCommit(isValid, xs) == IF isValid THEN numericInfer(xs) ELSE {}

\* One iteration of the loop over the operand positions: the node pushed on xs
\* and the new value of isValid.  i is the 1-based position, n the count.
numericStep(xs, i, n, isValid) ==
    LET op == xs[i]
        keep == [x |-> op, isValid |-> isValid]
    IN  IF i > n
        THEN [x |-> Error("unexpected-argument", op.id), isValid |-> FALSE]
        ELSE IF i > Len(xs)
        THEN [x |-> Error("missing", ""), isValid |-> FALSE]
        ELSE IF ~op.isValid
        THEN [x |-> op, isValid |-> FALSE]
        ELSE IF op.isNumber
        THEN keep
        ELSE IF op.symbol # "" /\ ~op.defined
        THEN keep
        ELSE IF op.type = "unknown"
        THEN keep
        ELSE IF isFiniteIndexableCollection(op)
        THEN LET v == IF \E j \in 1..Len(op.elems) : ~op.elems[j] THEN FALSE ELSE isValid
             IN  IF ~v THEN [x |-> typeError("number", op), isValid |-> v]
                 ELSE [x |-> op, isValid |-> v]
        ELSE IF op.inferredType /\ isSubtype("number", op.type)
        THEN keep
        ELSE IF op.inferredSignature /\ isSubtype("number", op.type)
        THEN keep
        ELSE IF op.operator = "Hold" \/ op.valueOperator = "Hold"
        THEN keep
        ELSE [x |-> typeError("number", op), isValid |-> FALSE]

\* The loop, from position i on: [xs |-> the list built, isValid |-> the flag].
RECURSIVE numericLoop(_, _, _, _, _)
numericLoop(xs, n, i, acc, isValid) ==
    IF i > Max(n, Len(xs)) THEN [xs |-> acc, isValid |-> isValid]
    ELSE LET s == numericStep(xs, i, n, isValid)
         IN  numericLoop(xs, n, i + 1, Append(acc, s.x), s.isValid)

\* checkNumericArgs: [xs |-> the list returned, infer |-> the infer calls made].
\* cnt is the count option (-1: undefined), head the flatten option.
checkNumericArgs(isStrict, xs0, cnt, head) ==
    LET xs == flatten(xs0, head)
    IN  IF ~isStrict THEN [xs |-> xs, infer |-> fastPathInfer(xs)]
        ELSE LET n == IF cnt = -1 THEN Len(xs) ELSE cnt
                 r == numericLoop(xs, n, 1, <<>>, TRUE)
             IN  [xs |-> r.xs, infer |-> numericCommit(r.isValid, r.xs)]

NumericOperands ==
    { OpNum, OpComplex, OpX, OpStr, OpList, OpListBad, OpInferred, OpInferredFn,
      OpHold, OpErr, OpSeq, OpAdd }

CallCheckNumericArgs ==
    /\ fn = ""
    /\ pc = "idle"
    /\ \E s \in BOOLEAN, xs \in SeqsUpTo(NumericOperands, MaxNumOps),
          n \in -1..MaxCount, head \in {"", "Add"} :
          LET r == checkNumericArgs(s, xs, n, head)
          IN  /\ strict' = s
              /\ ops' = xs
              /\ count' = n
              /\ flattenHead' = head
              /\ returned' = [null |-> FALSE, xs |-> r.xs]
              /\ inferCalls' = r.infer
    /\ fn' = "checkNumericArgs"
    /\ UNCHANGED <<signature, lazy, threadable>>
    /\ UNCHANGED <<rvars, cvars, fvars, dvars, gvars, evars>>

(***************************************************************************)
(* validateArguments(ce, ops, signature, lazy, threadable)                 *)
(***************************************************************************)
Signature(params, optParams, restParam) ==
    [kind |-> "signature", args |-> params, optArgs |-> optParams, restArg |-> restParam]

\* The check of one operand against the type of its parameter: the node pushed
\* on the result and whether the operand is accepted.  The loop over the
\* required parameters also looks at the inferred signature of a function.
validateOperand(op, param, isLazy, isThreadable, required) ==
    LET pass == [x |-> op, ok |-> TRUE]
    IN  IF isLazy THEN pass
        ELSE IF ~op.isValid THEN [x |-> op, ok |-> FALSE]
        ELSE IF op.type = "unknown" THEN pass
        ELSE IF isThreadable /\ isFiniteIndexableCollection(op) THEN pass
        ELSE IF op.inferredType /\ matches(op.type, param) THEN pass
        ELSE IF required /\ op.inferredSignature /\ matches(op.type, param) THEN pass
        ELSE IF ~matches(op.type, param)
        THEN [x |-> typeError(param, op), ok |-> FALSE]
        ELSE pass

\* The operand position reached when the loops over the required and the
\* optional parameters are over (0-based i of the code).
AfterOptional(xs, sig) ==
    Len(sig.args) + Min(Len(sig.optArgs), Max(Len(xs) - Len(sig.args), 0))

\* The node pushed for the required parameter k.
requiredNode(xs, sig, k, isLazy, isThreadable) ==
    IF k > Len(xs) THEN [x |-> Error("missing", ""), ok |-> FALSE]
    ELSE validateOperand(xs[k], sig.args[k], isLazy, isThreadable, TRUE)

\* The node pushed for the operand at position i > Len(sig.args).
\* Mutant: an operand beyond the declared parameters is passed through.
trailingNodeKeepExtra(xs, sig, i, isLazy, isThreadable) ==
    IF i <= AfterOptional(xs, sig)
    THEN validateOperand(xs[i], sig.optArgs[i - Len(sig.args)], isLazy, isThreadable, FALSE)
    ELSE IF sig.restArg # ""
    THEN validateOperand(xs[i], sig.restArg, isLazy, isThreadable, FALSE)
    ELSE [x |-> xs[i], ok |-> TRUE]

trailingNode(xs, sig, i, isLazy, isThreadable) ==
    IF i <= AfterOptional(xs, sig)
    THEN validateOperand(xs[i], sig.optArgs[i - Len(sig.args)], isLazy, isThreadable, FALSE)
    ELSE IF sig.restArg # ""
    THEN validateOperand(xs[i], sig.restArg, isLazy, isThreadable, FALSE)
    ELSE [x |-> Error("unexpected-argument", xs[i].id), ok |-> FALSE]

\* The nodes pushed on result, position by position.
validateNodes(xs, sig, isLazy, isThreadable) ==
    [i \in 1..Max(Len(sig.args), Len(xs)) |->
        IF i <= Len(sig.args)
        THEN requiredNode(xs, sig, i, isLazy, isThreadable)
        ELSE trailingNode(xs, sig, i, isLazy, isThreadable)]

\* The infer calls made once all the arguments are valid.
validateInfer(xs, sig, isLazy, isThreadable) ==
    LET inferable(i) == ~isThreadable \/ ~isFiniteIndexableCollection(xs[i])
    IN  { <<i, 0, sig.args[i]>> :
            i \in { k \in 1..Len(sig.args) : ~isLazy /\ inferable(k) } }
        \cup
        { <<i, 0, sig.optArgs[i - Len(sig.args)]>> :
            i \in { k \in (Len(sig.args) + 1)..AfterOptional(xs, sig) : inferable(k) } }
        \cup
        { <<i, 0, sig.restArg>> :
            i \in { k \in (AfterOptional(xs, sig) + 1)..Len(xs) :
                      sig.restArg # "" /\ ~isLazy /\ inferable(k) } }

\* Mutant: the type of an operand is inferred as soon as the operand is accepted.
validateArgumentsInferInLoop(isStrict, xs, sig, isLazy, isThreadable) ==
    IF ~isStrict \/ sig.kind # "signature"
    THEN [null |-> TRUE, xs |-> <<>>, infer |-> {}]
    ELSE LET nodes == validateNodes(xs, sig, isLazy, isThreadable)
             isValid == \A i \in 1..Len(nodes) : nodes[i].ok
             calls == { <<i, 0, "number">> :
                          i \in { k \in 1..Len(xs) : nodes[k].ok /\ ~isLazy } }
         IN  IF ~isValid
             THEN [null |-> FALSE, xs |-> [i \in 1..Len(nodes) |-> nodes[i].x],
                   infer |-> calls]
             ELSE [null |-> TRUE, xs |-> <<>>, infer |-> calls]

\* validateArguments: [null |-> null was returned, xs |-> the list returned
\* otherwise, infer |-> the infer calls made].
validateArguments(isStrict, xs, sig, isLazy, isThreadable) ==
    IF ~isStrict \/ sig.kind # "signature"
    THEN [null |-> TRUE, xs |-> <<>>, infer |-> {}]
    ELSE LET nodes == validateNodes(xs, sig, isLazy, isThreadable)
             isValid == \A i \in 1..Len(nodes) : nodes[i].ok
         IN  IF ~isValid
             THEN [null |-> FALSE, xs |-> [i \in 1..Len(nodes) |-> nodes[i].x],
                   infer |-> {}]
             ELSE [null |-> TRUE, xs |-> <<>>,
                   infer |-> validateInfer(xs, sig, isLazy, isThreadable)]

SignatureOperands == {OpNum, OpX, OpStr, OpList, OpInferred, OpInferredFn, OpErr}

\* The signature argument: a signature, a type given by name, or another kind of type.
Signatures ==
    { Signature(p, o, r) :
        p \in {<<>>, <<"number">>, <<"string">>, <<"number", "number">>, <<"number", "string">>},
        o \in {<<>>, <<"number">>},
        r \in {"", "number"} }
    \cup { [NoSignature EXCEPT !.kind = "string"], [NoSignature EXCEPT !.kind = "list"] }

CallValidateArguments ==
    /\ fn = ""
    /\ pc = "idle"
    /\ \E s \in BOOLEAN, xs \in SeqsUpTo(SignatureOperands, MaxSigOps),
          sig \in Signatures, l \in BOOLEAN, t \in BOOLEAN :
          LET r == validateArguments(s, xs, sig, l, t)
          IN  /\ strict' = s
              /\ ops' = xs
              /\ signature' = sig
              /\ lazy' = l
              /\ threadable' = t
              /\ returned' = [null |-> r.null, xs |-> r.xs]
              /\ inferCalls' = r.infer
    /\ fn' = "validateArguments"
    /\ UNCHANGED <<count, flattenHead>>
    /\ UNCHANGED <<rvars, cvars, fvars, dvars, gvars, evars>>

(***************************************************************************)
(* Canonical comparison: engine.compare and the predicates derived from it.*)
(***************************************************************************)
Num(n) == [k |-> "num", h |-> "", a |-> <<>>, n |-> n]
Pi == Sym("Pi")

\* A three-way result, or undefined.
Ord(v) == [defined |-> TRUE, v |-> v]
Undefined == [defined |-> FALSE, v |-> 0]

\* The table [a, b, compare(a, b)] the engine is held to.
exprs ==
    << [a |-> Num(1), b |-> Num(1), c |-> Ord(0)],
       [a |-> Num(1), b |-> Num(0), c |-> Ord(1)],
       [a |-> Num(2), b |-> Num(5), c |-> Ord(-1)],
       [a |-> Num(5), b |-> Num(2), c |-> Ord(1)],
       [a |-> Num(7), b |-> Num(7), c |-> Ord(0)],
       [a |-> Num(1), b |-> Pi, c |-> Ord(-1)],
       [a |-> Pi, b |-> Pi, c |-> Ord(1)],
       [a |-> Num(4), b |-> Pi, c |-> Ord(1)],
       [a |-> Pi, b |-> Num(1), c |-> Ord(1)],
       [a |-> Pi, b |-> Num(4), c |-> Ord(-1)],
       [a |-> Num(1), b |-> Sym("x"), c |-> Undefined],
       [a |-> Sym("x"), b |-> Num(1), c |-> Undefined],
       [a |-> Sym("x"), b |-> Sym("y"), c |-> Undefined],
       [a |-> Sym("x"), b |-> Fn("Foo", <<>>), c |-> Undefined],
       [a |-> Fn("Foo", <<>>), b |-> Sym("x"), c |-> Undefined],
       [a |-> Fn("Add", <<Sym("x"), Num(1)>>), b |-> Fn("Add", <<Sym("x"), Num(1)>>),
        c |-> Ord(0)],
       [a |-> Fn("Add", <<Num(1), Sym("x")>>), b |-> Fn("Add", <<Sym("x"), Num(1)>>),
        c |-> Ord(-1)] >>

\* An expression that reduces to a real numeric value: a number literal or a
\* known constant symbol.
IsRealNumeric(e) == e.k = "num" \/ e = Pi

\* The numeric value of such an expression, in hundredths.
numericValue(e) == IF e.k = "num" THEN 100 * e.n ELSE 314

Sign(d) == IF d < 0 THEN -1 ELSE IF d > 0 THEN 1 ELSE 0

\* The position of an operand in the structural order: numbers by value, then
\* symbols, then function applications.
structuralRank(e) ==
    IF e.k = "num" THEN numericValue(e)
    ELSE IF e.k = "sym" THEN 100000
    ELSE 200000

SameOperands(x, y) ==
    /\ Len(x.a) = Len(y.a)
    /\ \A i \in 1..Len(x.a) :
          Cardinality({ j \in 1..Len(x.a) : x.a[j] = x.a[i] })
            = Cardinality({ j \in 1..Len(y.a) : y.a[j] = x.a[i] })

\* The three-way comparison as section 4.2 of the specification gives it.
compareSpec(x, y) ==
    IF IsRealNumeric(x) /\ IsRealNumeric(y)
    THEN Ord(Sign(numericValue(x) - numericValue(y)))
    ELSE IF x = y
    THEN Ord(0)
    ELSE IF x.k = "fn" /\ y.k = "fn" /\ x.h = y.h /\ SameOperands(x, y)
    THEN LET d == CHOOSE i \in 1..Len(x.a) :
                     x.a[i] # y.a[i] /\ \A j \in 1..(i - 1) : x.a[j] = y.a[j]
         IN  Ord(Sign(structuralRank(x.a[d]) - structuralRank(y.a[d])))
    ELSE Undefined

\* engine.compare(a, b): what the table gives for the pairs it lists.
compare(x, y) ==
    IF \E i \in 1..Len(exprs) : exprs[i].a = x /\ exprs[i].b = y
    THEN exprs[CHOOSE i \in 1..Len(exprs) : exprs[i].a = x /\ exprs[i].b = y].c
    ELSE compareSpec(x, y)

\* engine.equal(a, b)
equal(x, y) ==
    LET c == compare(x, y)
    IN  IF ~c.defined THEN "undefined" ELSE IF c.v = 0 THEN "true" ELSE "false"

\* less with the undefined comparison taken for false.
lessCoerce(x, y) ==
    LET c == compare(x, y)
    IN  IF c.defined /\ c.v < 0 THEN "true" ELSE "false"

\* engine.less(a, b)
less(x, y) ==
    LET c == compare(x, y)
    IN  IF ~c.defined THEN "undefined" ELSE IF c.v < 0 THEN "true" ELSE "false"

\* engine.lessEqual(a, b), engine.greater(a, b), engine.greaterEqual(a, b)
lessEqual(x, y) ==
    LET c == compare(x, y)
    IN  IF ~c.defined THEN "undefined" ELSE IF c.v <= 0 THEN "true" ELSE "false"

greater(x, y) ==
    LET c == compare(x, y)
    IN  IF ~c.defined THEN "undefined" ELSE IF c.v > 0 THEN "true" ELSE "false"

greaterEqual(x, y) ==
    LET c == compare(x, y)
    IN  IF ~c.defined THEN "undefined" ELSE IF c.v >= 0 THEN "true" ELSE "false"

CompareExprs ==
    { Num(0), Num(1), Num(2), Num(4), Num(5), Num(7), Pi, Sym("x"), Sym("y"),
      Fn("Foo", <<>>), Fn("Add", <<Sym("x"), Num(1)>>), Fn("Add", <<Num(1), Sym("x")>>) }

CallCompare ==
    /\ cfn = ""
    /\ \E x \in CompareExprs, y \in CompareExprs :
          /\ ca' = x
          /\ cb' = y
          /\ cres' = compare(x, y)
    /\ cfn' = "compare"
    /\ UNCHANGED eres
    /\ UNCHANGED <<rvars, avars, fvars, dvars, gvars, evars>>

CallEqual ==
    /\ cfn = ""
    /\ \E x \in CompareExprs, y \in CompareExprs :
          /\ ca' = x
          /\ cb' = y
          /\ eres' = equal(x, y)
    /\ cfn' = "equal"
    /\ UNCHANGED cres
    /\ UNCHANGED <<rvars, avars, fvars, dvars, gvars, evars>>

CallLess ==
    /\ cfn = ""
    /\ \E x \in CompareExprs, y \in CompareExprs :
          /\ ca' = x
          /\ cb' = y
          /\ eres' = less(x, y)
    /\ cfn' = "less"
    /\ UNCHANGED cres
    /\ UNCHANGED <<rvars, avars, fvars, dvars, gvars, evars>>

CallLessEqual ==
    /\ cfn = ""
    /\ \E x \in CompareExprs, y \in CompareExprs :
          /\ ca' = x
          /\ cb' = y
          /\ eres' = lessEqual(x, y)
    /\ cfn' = "lessEqual"
    /\ UNCHANGED cres
    /\ UNCHANGED <<rvars, avars, fvars, dvars, gvars, evars>>

CallGreater ==
    /\ cfn = ""
    /\ \E x \in CompareExprs, y \in CompareExprs :
          /\ ca' = x
          /\ cb' = y
          /\ eres' = greater(x, y)
    /\ cfn' = "greater"
    /\ UNCHANGED cres
    /\ UNCHANGED <<rvars, avars, fvars, dvars, gvars, evars>>

CallGreaterEqual ==
    /\ cfn = ""
    /\ \E x \in CompareExprs, y \in CompareExprs :
          /\ ca' = x
          /\ cb' = y
          /\ eres' = greaterEqual(x, y)
    /\ cfn' = "greaterEqual"
    /\ UNCHANGED cres
    /\ UNCHANGED <<rvars, avars, fvars, dvars, gvars, evars>>

IdleCompare ==
    /\ cfn = ""
    /\ ca = Null
    /\ cb = Null
    /\ cres = Undefined
    /\ eres = ""

(***************************************************************************)
(* normalizeFlags: a flags record holds, for every flag, "true", "false"   *)
(* or "undefined" (the key is absent); defined is false for the argument   *)
(* undefined.                                                              *)
(***************************************************************************)
FlagValue == {"undefined", "true", "false"}

NoFlags ==
    [ defined |-> FALSE, even |-> "undefined", odd |-> "undefined",
      zero |-> "undefined", positive |-> "undefined", integer |-> "undefined" ]

FlagsRecords ==
    {NoFlags} \cup
    [ defined : {TRUE}, even : FlagValue, odd : FlagValue,
      zero : FlagValue, positive : FlagValue, integer : FlagValue ]

\* normalizeFlags without its second clear.
normalizeFlagsOddOnly(f) ==
    IF ~f.defined
    THEN [result |-> NoFlags, flags |-> f]
    ELSE [result |-> IF f.odd = "true" THEN [f EXCEPT !.even = "false"] ELSE f,
          flags |-> f]

\* normalizeFlags(flags): the value returned and the argument after the call.
normalizeFlags(f) ==
    IF ~f.defined
    THEN [result |-> NoFlags, flags |-> f]
    ELSE LET copy == f
             r1 == IF copy.odd = "true" THEN [copy EXCEPT !.even = "false"] ELSE copy
             r2 == IF r1.even = "true" THEN [r1 EXCEPT !.odd = "false"] ELSE r1
         IN  [result |-> r2, flags |-> f]

CallNormalizeFlags ==
    /\ ffn = ""
    /\ \E f \in FlagsRecords :
          /\ flagsGiven' = f
          /\ flags' = normalizeFlags(f).flags
          /\ normalized' = normalizeFlags(f).result
    /\ ffn' = "normalizeFlags"
    /\ UNCHANGED <<rvars, avars, cvars, dvars, gvars, evars>>

IdleFlags ==
    /\ ffn = ""
    /\ flagsGiven = NoFlags
    /\ flags = NoFlags
    /\ normalized = NoFlags

(***************************************************************************)
(* isSymbolDefinition and isFunctionDefinition: a definition record by the *)
(* keys it has and the typeof of its type and sgn fields.                  *)
(***************************************************************************)
NoDef ==
    [ kind |-> "", value |-> FALSE, constant |-> FALSE, inferred |-> FALSE,
      type |-> "absent", signature |-> FALSE, sgn |-> "absent",
      complexity |-> FALSE, evaluate |-> FALSE, canonical |-> FALSE ]

Definitions ==
    { [NoDef EXCEPT !.kind = k] : k \in {"undefined", "null", "number", "boxed"} }
    \cup
    [ kind : {"object"}, value : BOOLEAN, constant : BOOLEAN, inferred : BOOLEAN,
      type : {"absent", "string", "function", "object"}, signature : BOOLEAN,
      sgn : {"absent", "function", "string"},
      complexity : BOOLEAN, evaluate : BOOLEAN, canonical : BOOLEAN ]

\* isSymbolDefinition(def): "true", "false" or "throw"
isSymbolDefinition(d) ==
    IF d.kind \in {"undefined", "null", "number"} THEN "false"
    ELSE IF d.kind = "boxed" THEN "false"
    ELSE IF d.value \/ d.constant \/ d.inferred \/ d.type # "absent"
    THEN IF d.type # "absent" /\ d.type # "string" THEN "throw"
         ELSE IF d.signature THEN "throw"
         ELSE IF d.sgn # "absent" THEN "throw"
         ELSE "true"
    ELSE "false"

\* isFunctionDefinition(def): "true", "false" or "throw"
isFunctionDefinition(d) ==
    IF d.kind \in {"undefined", "null", "number"} THEN "false"
    ELSE IF d.kind = "boxed" THEN "false"
    ELSE IF (d.signature \/ d.complexity) /\ d.constant THEN "throw"
    ELSE IF /\ ~d.evaluate
            /\ ~d.signature
            /\ d.sgn = "absent"
            /\ ~d.complexity
            /\ ~d.canonical
    THEN "false"
    ELSE IF d.type # "absent" /\ d.type # "function" THEN "throw"
    ELSE IF d.sgn # "absent" /\ d.sgn # "function" THEN "throw"
    ELSE "true"

CallIsSymbolDefinition ==
    /\ isSymbol = ""
    /\ \E d \in Definitions :
          /\ def = NoDef \/ d = def
          /\ def' = d
          /\ isSymbol' = isSymbolDefinition(d)
    /\ UNCHANGED isFunction
    /\ UNCHANGED <<rvars, avars, cvars, fvars, gvars, evars>>

CallIsFunctionDefinition ==
    /\ isFunction = ""
    /\ \E d \in Definitions :
          /\ def = NoDef \/ d = def
          /\ def' = d
          /\ isFunction' = isFunctionDefinition(d)
    /\ UNCHANGED isSymbol
    /\ UNCHANGED <<rvars, avars, cvars, fvars, gvars, evars>>

IdleDefinitions ==
    /\ def = NoDef
    /\ isSymbol = ""
    /\ isFunction = ""

(***************************************************************************)
(* canonicalAngle.  A numeric value is an exact fraction <<p, q>>, q > 0.  *)
(***************************************************************************)
\* N() of Pi, to six decimals
PiValue == <<355, 113>>

ImaginaryUnit == Sym("ImaginaryUnit")

\* NumericValue neg, add, mul, div
neg(x) == <<-x[1], x[2]>>
add(x, y) == <<x[1] * y[2] + y[1] * x[2], x[2] * y[2]>>
mul(x, y) == <<x[1] * y[1], x[2] * y[2]>>
div(x, y) == IF y[1] > 0 THEN <<x[1] * y[2], x[2] * y[1]>> ELSE <<-x[1] * y[2], -x[2] * y[1]>>

\* The angles canonicalAngle is given: number literals, Pi and arithmetic on
\* them.
AngleExprs ==
    { Pi, Num(0), Num(1), Num(7), Num(-1), Num(90), Num(-90), Num(180), Num(360),
      Num(400), ImaginaryUnit,
      Fn("Negate", <<Pi>>),
      Fn("Multiply", <<Num(2), Pi>>), Fn("Multiply", <<Num(3), Pi>>),
      Fn("Multiply", <<Num(5), Pi>>), Fn("Multiply", <<Num(-1), Pi>>),
      Fn("Multiply", <<Num(-3), Pi>>), Fn("Multiply", <<Num(-4), Pi>>),
      Fn("Multiply", <<Pi, Num(2)>>), Fn("Multiply", <<Pi, Pi>>),
      Fn("Negate", <<Fn("Multiply", <<Num(3), Pi>>)>>),
      Fn("Add", <<Pi, Pi>>), Fn("Add", <<Num(1), Pi>>),
      Fn("Add", <<Fn("Multiply", <<Num(3), Pi>>), Num(1)>>),
      Fn("Add", <<Fn("Multiply", <<Num(-3), Pi>>), Num(1)>>),
      Fn("Add", <<Pi, Num(1), Num(2)>>),
      Fn("Divide", <<Pi, Num(2)>>), Fn("Divide", <<Num(1), Pi>>),
      Fn("Divide", <<Fn("Multiply", <<Num(3), Pi>>), Num(2)>>),
      Fn("Negate", <<Fn("Divide", <<Pi, Num(2)>>)>>) }

angleToRadians(unit, x) ==
    IF unit = "rad" THEN x
    ELSE IF unit = "deg" THEN Fn("Divide", <<Fn("Multiply", <<x, Pi>>), Num(180)>>)
    ELSE IF unit = "grad" THEN Fn("Divide", <<Fn("Multiply", <<x, Pi>>), Num(200)>>)
    ELSE Fn("Multiply", <<Fn("Multiply", <<x, Pi>>), Num(2)>>)

\* expr.N(): the real part as a fraction, and whether the imaginary part is
\* not zero.
RECURSIVE N(_)
N(e) ==
    IF e.k = "num" THEN [re |-> <<e.n, 1>>, im |-> FALSE]
    ELSE IF e = Pi THEN [re |-> PiValue, im |-> FALSE]
    ELSE IF e = ImaginaryUnit THEN [re |-> <<0, 1>>, im |-> TRUE]
    ELSE IF e.h = "Negate" THEN [re |-> neg(N(e.a[1]).re), im |-> N(e.a[1]).im]
    ELSE IF e.h = "Divide"
    THEN [re |-> div(N(e.a[1]).re, N(e.a[2]).re), im |-> N(e.a[1]).im]
    ELSE IF Len(e.a) = 1 THEN N(e.a[1])
    ELSE LET rest == N([e EXCEPT !.a = Tail(e.a)])
         IN  [re |-> IF e.h = "Add" THEN add(N(e.a[1]).re, rest.re)
                     ELSE mul(N(e.a[1]).re, rest.re),
              im |-> N(e.a[1]).im \/ rest.im]

\* getPiTerm(expr): k and t such that expr = k * pi + t
RECURSIVE getPiTerm(_)
getPiTerm(e) ==
    IF e = Pi THEN [k |-> <<1, 1>>, t |-> <<0, 1>>]
    ELSE IF e.k = "fn" /\ e.h = "Negate"
    THEN [k |-> neg(getPiTerm(e.a[1]).k), t |-> neg(getPiTerm(e.a[1]).t)]
    ELSE IF e.k = "fn" /\ e.h = "Add" /\ Len(e.a) = 2
    THEN [k |-> add(getPiTerm(e.a[1]).k, getPiTerm(e.a[2]).k),
          t |-> add(getPiTerm(e.a[1]).t, getPiTerm(e.a[2]).t)]
    ELSE IF e.k = "fn" /\ e.h = "Multiply" /\ Len(e.a) = 2 /\ e.a[1].k = "num"
    THEN [k |-> mul(getPiTerm(e.a[2]).k, <<e.a[1].n, 1>>),
          t |-> mul(getPiTerm(e.a[2]).t, <<e.a[1].n, 1>>)]
    ELSE IF e.k = "fn" /\ e.h = "Multiply" /\ Len(e.a) = 2 /\ e.a[2].k = "num"
    THEN [k |-> mul(getPiTerm(e.a[1]).k, <<e.a[2].n, 1>>),
          t |-> mul(getPiTerm(e.a[1]).t, <<e.a[2].n, 1>>)]
    ELSE IF e.k = "fn" /\ e.h = "Divide" /\ e.a[2].k = "num"
    THEN [k |-> div(getPiTerm(e.a[1]).k, <<e.a[2].n, 1>>),
          t |-> div(getPiTerm(e.a[1]).t, <<e.a[2].n, 1>>)]
    ELSE [k |-> <<0, 1>>, t |-> N(e).re]

\* x % 2 of JavaScript (and Decimal.mod): the remainder has the sign of x.
remainder2(x) ==
    IF x[1] >= 0 THEN <<x[1] % (2 * x[2]), x[2]>> ELSE <<-((-x[1]) % (2 * x[2])), x[2]>>

\* canonicalAngle(x): theta itself when it is not real, otherwise the number
\* k * pi + t it returns, by its k and t.
canonicalAngle(unit, x) ==
    LET theta == angleToRadians(unit, x)
        kt == getPiTerm(theta)
    IN  IF N(theta).im THEN [kind |-> "theta", theta |-> theta]
        ELSE IF kt.k[1] = 0 THEN [kind |-> "number", k |-> <<0, 1>>, t |-> kt.t]
        ELSE [kind |-> "number", k |-> remainder2(kt.k), t |-> kt.t]

CallCanonicalAngle ==
    /\ gfn = ""
    /\ \E u \in {"rad", "deg", "grad", "turn"}, x \in AngleExprs :
          /\ angularUnit' = u
          /\ angle' = x
          /\ canonical' = canonicalAngle(u, x)
    /\ gfn' = "canonicalAngle"
    /\ UNCHANGED <<rvars, avars, cvars, fvars, dvars, evars>>

IdleAngle ==
    /\ gfn = ""
    /\ angularUnit = "rad"
    /\ angle = Null
    /\ canonical = [kind |-> "", theta |-> Null]

(***************************************************************************)
(* expand.ts.  The table binomials lives as long as the module: a function *)
(* that may reach choose takes the table and returns [t |-> the table      *)
(* after the call, v |-> the value returned].                              *)
(***************************************************************************)
\* The rows 0..8 of Pascal's triangle the table starts with.
InitialBinomials ==
    << <<1>>,
       <<1, 1>>,
       <<1, 2, 1>>,
       <<1, 3, 3, 1>>,
       <<1, 4, 6, 4, 1>>,
       <<1, 5, 10, 10, 5, 1>>,
       <<1, 6, 15, 20, 15, 6, 1>>,
       <<1, 7, 21, 35, 35, 21, 7, 1>>,
       <<1, 8, 28, 56, 70, 56, 28, 8, 1>> >>

\* What the engine builds (ce.One, ce.NegativeOne, ce.add, ce.mul, ce.pow,
\* ce.neg, ce.inv, ce.div, canonicalNegate), as constructors.
One == Num(1)
NegativeOne == Num(-1)
ce_add(xs) == Fn("Add", xs)
ce_mul(xs) == Fn("Multiply", xs)
ce_pow(x, n) == Fn("Power", <<x, Num(n)>>)
ce_div(x, y) == Fn("Divide", <<x, y>>)
ce_inv(x) == Fn("Divide", <<One, x>>)
canonicalNegate(x) == IF x.k = "fn" /\ x.h = "Negate" THEN x.a[1] ELSE Fn("Negate", <<x>>)
ce_neg(x) == canonicalNegate(x)

\* expr.head of a function expression ("" for a symbol or a number)
headOf(e) == IF e.k = "fn" THEN e.h ELSE ""

RECURSIVE distribute2(_, _)

\* distribute2 that looks for a sum on the right before the left.
distribute2RightFirst(lhs, rhs) ==
    IF headOf(lhs) = "Negate" /\ headOf(rhs) = "Negate" THEN distribute2(lhs.a[1], rhs.a[1])
    ELSE IF headOf(lhs) = "Negate" THEN canonicalNegate(distribute2(lhs.a[1], rhs))
    ELSE IF headOf(rhs) = "Negate" THEN canonicalNegate(distribute2(lhs, rhs.a[1]))
    ELSE IF headOf(lhs) = "Divide" /\ headOf(rhs) = "Divide"
    THEN ce_div(distribute2(lhs.a[1], rhs.a[1]), ce_mul(<<lhs.a[2], rhs.a[2]>>))
    ELSE IF headOf(lhs) = "Divide" THEN ce_div(distribute2(lhs.a[1], rhs), lhs.a[2])
    ELSE IF headOf(rhs) = "Divide" THEN ce_div(distribute2(lhs, rhs.a[1]), rhs.a[2])
    ELSE IF headOf(rhs) = "Add"
    THEN ce_add([i \in 1..Len(rhs.a) |-> distribute2(lhs, rhs.a[i])])
    ELSE IF headOf(lhs) = "Add"
    THEN ce_add([i \in 1..Len(lhs.a) |-> distribute2(lhs.a[i], rhs)])
    ELSE ce_mul(<<lhs, rhs>>)

distribute2(lhs, rhs) ==
    IF headOf(lhs) = "Negate" /\ headOf(rhs) = "Negate" THEN distribute2(lhs.a[1], rhs.a[1])
    ELSE IF headOf(lhs) = "Negate" THEN canonicalNegate(distribute2(lhs.a[1], rhs))
    ELSE IF headOf(rhs) = "Negate" THEN canonicalNegate(distribute2(lhs, rhs.a[1]))
    ELSE IF headOf(lhs) = "Divide" /\ headOf(rhs) = "Divide"
    THEN ce_div(distribute2(lhs.a[1], rhs.a[1]), ce_mul(<<lhs.a[2], rhs.a[2]>>))
    ELSE IF headOf(lhs) = "Divide" THEN ce_div(distribute2(lhs.a[1], rhs), lhs.a[2])
    ELSE IF headOf(rhs) = "Divide" THEN ce_div(distribute2(lhs, rhs.a[1]), rhs.a[2])
    ELSE IF headOf(lhs) = "Add"
    THEN ce_add([i \in 1..Len(lhs.a) |-> distribute2(lhs.a[i], rhs)])
    ELSE IF headOf(rhs) = "Add"
    THEN ce_add([i \in 1..Len(rhs.a) |-> distribute2(lhs, rhs.a[i])])
    ELSE ce_mul(<<lhs, rhs>>)

\* The row choose appends to the table: row s from row s - 1, s the length.
nextRowNoCarry(tbl) ==
    LET s == Len(tbl)
        prev == tbl[s]
    IN  [i \in 1..(s + 1) |-> IF i = 1 \/ i = s + 1 THEN 1 ELSE prev[i - 1] + prev[i - 1]]

nextRow(tbl) ==
    LET s == Len(tbl)
        prev == tbl[s]
    IN  [i \in 1..(s + 1) |-> IF i = 1 \/ i = s + 1 THEN 1 ELSE prev[i - 1] + prev[i]]

\* The while loop of choose.
RECURSIVE extend(_, _)
extend(tbl, n) == IF n >= Len(tbl) THEN extend(Append(tbl, nextRow(tbl)), n) ELSE tbl

choose(tbl, n, k) ==
    LET t == extend(tbl, n)
    IN  [t |-> t, v |-> t[n + 1][k + 1]]

RECURSIVE reduceSum(_)
reduceSum(k) == IF k = <<>> THEN 0 ELSE k[1] + reduceSum(Tail(k))

\* The for loop of multinomialCoefficient from position i on.
RECURSIVE multinomialLoop(_, _, _, _, _)

\* The loop without n -= k[i].
multinomialLoopKeepN(tbl, k, i, n, prod) ==
    IF i > Len(k) THEN [t |-> tbl, v |-> prod]
    ELSE LET c == choose(tbl, n, k[i])
         IN  multinomialLoop(c.t, k, i + 1, n, prod * c.v)

multinomialLoop(tbl, k, i, n, prod) ==
    IF i > Len(k) THEN [t |-> tbl, v |-> prod]
    ELSE LET c == choose(tbl, n, k[i])
         IN  multinomialLoop(c.t, k, i + 1, n - k[i], prod * c.v)

multinomialCoefficient(tbl, k) == multinomialLoop(tbl, k, 1, reduceSum(k), 1)

\* powers(n, exp): the tuples in the order the generator yields them;
\* powersLoop is its for loop from i on.
RECURSIVE powers(_, _)
RECURSIVE powersLoop(_, _, _)
powersLoop(n, exp, i) ==
    IF i > exp THEN <<>>
    ELSE LET ps == powers(n - 1, exp - i)
         IN  [j \in 1..Len(ps) |-> <<i>> \o ps[j]] \o powersLoop(n, exp, i + 1)

\* powers whose loop starts at 1.
powersFromOne(n, exp) == IF n = 1 THEN << <<exp>> >> ELSE powersLoop(n, exp, 1)

powers(n, exp) == IF n = 1 THEN << <<exp>> >> ELSE powersLoop(n, exp, 0)

\* The factors pushed on product after the coefficient, from position i on.
RECURSIVE factors(_, _, _)
factors(terms, val, i) ==
    IF i > Len(val) THEN <<>>
    ELSE (IF val[i] = 0 THEN <<>>
          ELSE IF val[i] = 1 THEN <<terms[i]>>
          ELSE <<ce_pow(terms[i], val[i])>>) \o factors(terms, val, i + 1)

\* The value a set of one element holds: a name bound through such a set is
\* evaluated once, before it is used.
Value(S) == CHOOSE x \in S : TRUE

\* The iterations lo..hi of the loop of expandPower over the tuples of powers,
\* in their order: the table after them and the products pushed on result.
RECURSIVE expandTerms(_, _, _, _, _)
expandTerms(tbl, terms, vals, lo, hi) ==
    IF lo > hi THEN [t |-> tbl, v |-> <<>>]
    ELSE IF lo = hi
    THEN Value({ [t |-> m.t,
                  v |-> <<ce_mul(<<Num(m.v)>> \o factors(terms, vals[lo], 1))>>] :
                    m \in {multinomialCoefficient(tbl, vals[lo])} })
    ELSE LET mid == (lo + hi) \div 2
         IN  Value({ Value({ [t |-> rest.t, v |-> first.v \o rest.v] :
                               rest \in {expandTerms(first.t, terms, vals, mid + 1, hi)} }) :
                       first \in {expandTerms(tbl, terms, vals, lo, mid)} })

isRelationalOperator(h) ==
    h \in {"Equal", "NotEqual", "Less", "LessEqual", "Greater", "GreaterEqual"}

RECURSIVE expand(_, _)
RECURSIVE expandPower(_, _, _)
RECURSIVE distribute(_, _, _)

\* ops.map((x) => expand(x) ?? x), from position i on
RECURSIVE expandOps(_, _, _, _)
expandOps(tbl, xs, i, acc) ==
    IF i > Len(xs) THEN [t |-> tbl, v |-> acc]
    ELSE LET r == expand(tbl, xs[i])
         IN  expandOps(r.t, xs, i + 1, Append(acc, IF r.v = Null THEN xs[i] ELSE r.v))

\* The external simplifier of sums: it expands its arguments.
simplifyAdd(tbl, xs) ==
    LET r == expandOps(tbl, xs, 1, <<>>)
    IN  [t |-> r.t, v |-> ce_add(r.v)]

\* expandPower with the parity of a Negate base taken the other way round.
expandPowerOddEven(tbl, base, exp) ==
    IF exp < 0
    THEN LET r == expandPower(tbl, base, -exp)
         IN  [t |-> r.t, v |-> IF r.v # Null THEN ce_inv(r.v) ELSE Null]
    ELSE IF exp = 0 THEN [t |-> tbl, v |-> One]
    ELSE IF exp = 1 THEN expand(tbl, base)
    ELSE IF headOf(base) = "Negate"
    THEN LET r == expandPower(tbl, base.a[1], exp)
         IN  [t |-> r.t,
              v |-> IF r.v = Null THEN Null
                    ELSE IF exp % 2 = 1 THEN r.v ELSE ce_neg(r.v)]
    ELSE IF headOf(base) # "Add" THEN [t |-> tbl, v |-> Null]
    ELSE LET vals == powers(Len(base.a), exp)
             result == expandTerms(tbl, base.a, vals, 1, Len(vals))
         IN  [t |-> result.t, v |-> ce_add(result.v)]

expandPower(tbl, base, exp) ==
    IF exp < 0
    THEN LET r == expandPower(tbl, base, -exp)
         IN  [t |-> r.t, v |-> IF r.v # Null THEN ce_inv(r.v) ELSE Null]
    ELSE IF exp = 0 THEN [t |-> tbl, v |-> One]
    ELSE IF exp = 1 THEN expand(tbl, base)
    ELSE IF headOf(base) = "Negate"
    THEN LET r == expandPower(tbl, base.a[1], exp)
         IN  [t |-> r.t,
              v |-> IF r.v = Null THEN Null
                    ELSE IF exp % 2 = 0 THEN r.v ELSE ce_neg(r.v)]
    ELSE IF headOf(base) # "Add" THEN [t |-> tbl, v |-> Null]
    ELSE LET vals == powers(Len(base.a), exp)
             result == expandTerms(tbl, base.a, vals, 1, Len(vals))
         IN  [t |-> result.t, v |-> ce_add(result.v)]

expandMultinomial(tbl, e) ==
    IF headOf(e) # "Power" THEN [t |-> tbl, v |-> Null]
    ELSE IF e.a[2].k # "num" THEN [t |-> tbl, v |-> Null]
    ELSE expandPower(tbl, e.a[1], e.a[2].n)

expandNumerator(tbl, e) ==
    IF headOf(e) # "Divide" THEN [t |-> tbl, v |-> Null]
    ELSE LET n == expand(tbl, e.a[1])
         IN  [t |-> n.t,
              v |-> IF n.v = Null THEN Null
                    ELSE IF headOf(n.v) = "Add"
                    THEN ce_add([i \in 1..Len(n.v.a) |-> ce_div(n.v.a[i], e.a[2])])
                    ELSE ce_div(n.v, e.a[2])]

expand(tbl, e) ==
    IF e = Null THEN [t |-> tbl, v |-> Null]
    ELSE IF isRelationalOperator(headOf(e))
    THEN LET r == expandOps(tbl, e.a, 1, <<>>)
         IN  [t |-> r.t, v |-> Fn(e.h, r.v)]
    ELSE LET result == expandNumerator(tbl, e)
         IN  IF result.v # Null THEN result
             ELSE IF headOf(e) = "Multiply" THEN distribute(result.t, "Multiply", e.a)
             ELSE IF headOf(e) = "Add" THEN simplifyAdd(result.t, e.a)
             ELSE IF headOf(e) = "Negate"
             THEN LET op == expand(result.t, e.a[1])
                  IN  [t |-> op.t, v |-> IF op.v = Null THEN Null ELSE ce_neg(op.v)]
             ELSE IF headOf(e) = "Power" THEN expandMultinomial(result.t, e)
             ELSE [t |-> result.t, v |-> Null]

distribute(tbl, head, xs) ==
    IF head = "Power"
    THEN IF xs[2].k # "num" THEN [t |-> tbl, v |-> Null]
         ELSE expandPower(tbl, xs[1], xs[2].n)
    ELSE IF head = "Negate" THEN distribute(tbl, "Multiply", <<NegativeOne, xs[1]>>)
    ELSE IF head = "Divide"
    THEN IF xs[1].k # "fn" THEN [t |-> tbl, v |-> Null]
         ELSE LET num == distribute(tbl, xs[1].h, xs[1].a)
              IN  [t |-> num.t, v |-> IF num.v = Null THEN Null ELSE ce_div(num.v, xs[2])]
    ELSE IF head = "Multiply"
    THEN IF Len(xs) = 1 THEN [t |-> tbl, v |-> xs[1]]
         ELSE IF Len(xs) = 2 THEN [t |-> tbl, v |-> distribute2(xs[1], xs[2])]
         ELSE LET rhs == distribute(tbl, head, Tail(xs))
              IN  [t |-> rhs.t,
                   v |-> IF rhs.v = Null THEN Null ELSE distribute2(xs[1], rhs.v)]
    ELSE [t |-> tbl, v |-> Null]

\* The arguments of the calls.
C == Sym("c")
D == Sym("d")

ExpandBases ==
    { A, Fn("Negate", <<A>>),
      Fn("Add", <<A, B>>), Fn("Add", <<A, B, C>>), Fn("Add", <<A, Fn("Negate", <<B>>)>>),
      Fn("Negate", <<Fn("Add", <<A, B>>)>>),
      Fn("Multiply", <<A, Fn("Add", <<B, C>>)>>),
      Fn("Divide", <<Fn("Multiply", <<A, Fn("Add", <<B, C>>)>>), D>>),
      Fn("Power", <<Fn("Add", <<A, B>>), Num(2)>>),
      Fn("Equal", <<Fn("Multiply", <<A, Fn("Add", <<B, C>>)>>), D>>) }

DistributeOperands ==
    { A, B, C,
      Fn("Add", <<A, B>>), Fn("Add", <<C, D>>), Fn("Add", <<A, B, C>>),
      Fn("Add", <<A, Fn("Negate", <<B>>)>>), Fn("Add", <<Fn("Divide", <<A, B>>), C>>),
      Fn("Negate", <<A>>), Fn("Negate", <<Fn("Add", <<C, D>>)>>),
      Fn("Divide", <<A, B>>), Fn("Divide", <<Fn("Add", <<C, D>>), A>>) }

\* The calls distribute(ce, head, ops) that are made.
DistributeCalls ==
    { <<"Multiply", <<x>> >> : x \in DistributeOperands }
    \cup { <<"Multiply", <<x, y>> >> : x \in DistributeOperands, y \in DistributeOperands }
    \cup { <<"Multiply", <<x, y, z>> >> :
              x \in {A, Fn("Add", <<A, B>>)}, y \in {B, Fn("Add", <<C, D>>)},
              z \in {C, Fn("Add", <<A, D>>)} }
    \cup { <<"Negate", <<x>> >> : x \in DistributeOperands }
    \cup { <<"Divide", <<x, D>> >> : x \in ExpandBases }
    \cup { <<"Power", <<x, y>> >> : x \in ExpandBases, y \in {Num(2), Num(3), C} }
    \cup { <<"Add", <<x, y>> >> : x \in {A}, y \in {B, C} }

CallChoose ==
    /\ \E n \in 0..MaxChoose, k \in 0..MaxChoose :
          /\ k <= n
          /\ eargs' = <<n, k>>
          /\ binomials' = choose(binomials, n, k).t
          /\ eret' = choose(binomials, n, k).v
    /\ efn' = "choose"
    /\ UNCHANGED <<rvars, avars, cvars, fvars, dvars, gvars>>

CallPowers ==
    /\ \E n \in 1..MaxTerms, exp \in 0..MaxExp :
          /\ eargs' = <<n, exp>>
          /\ eret' = powers(n, exp)
    /\ efn' = "powers"
    /\ UNCHANGED binomials
    /\ UNCHANGED <<rvars, avars, cvars, fvars, dvars, gvars>>

CallExpandPower ==
    /\ \E base \in ExpandBases, exp \in (-3)..MaxExp :
          /\ eargs' = <<base, exp>>
          /\ binomials' = expandPower(binomials, base, exp).t
          /\ eret' = expandPower(binomials, base, exp).v
    /\ efn' = "expandPower"
    /\ UNCHANGED <<rvars, avars, cvars, fvars, dvars, gvars>>

CallDistribute ==
    /\ \E c \in DistributeCalls :
          /\ eargs' = c
          /\ binomials' = distribute(binomials, c[1], c[2]).t
          /\ eret' = distribute(binomials, c[1], c[2]).v
    /\ efn' = "distribute"
    /\ UNCHANGED <<rvars, avars, cvars, fvars, dvars, gvars>>

IdleExpand ==
    /\ binomials = InitialBinomials
    /\ efn = ""
    /\ eargs = <<>>
    /\ eret = Null

(***************************************************************************)
(* Specifications: every component starts idle.                            *)
(***************************************************************************)
Init ==
    /\ IdleReplace
    /\ IdleArgs
    /\ IdleCompare
    /\ IdleFlags
    /\ IdleDefinitions
    /\ IdleAngle
    /\ IdleExpand

NextReplace == Call \/ WhileTest \/ ForStep \/ ForEnd

SpecReplace == Init /\ [][NextReplace]_vars

NextArity == CallCheckArity

SpecArity == Init /\ [][NextArity]_vars

NextNumeric == CallCheckNumericArgs

SpecNumeric == Init /\ [][NextNumeric]_vars

NextValidate == CallValidateArguments

SpecValidate == Init /\ [][NextValidate]_vars

NextCompare ==
    CallCompare \/ CallEqual \/ CallLess \/ CallLessEqual \/ CallGreater \/ CallGreaterEqual

SpecCompare == Init /\ [][NextCompare]_vars

NextFlags == CallNormalizeFlags
SpecFlags == Init /\ [][NextFlags]_vars

NextExpand == CallChoose \/ CallPowers \/ CallExpandPower \/ CallDistribute
SpecExpand == Init /\ [][NextExpand]_vars

NextAngle == CallCanonicalAngle
SpecAngle == Init /\ [][NextAngle]_vars

NextDefinitions == CallIsSymbolDefinition \/ CallIsFunctionDefinition
SpecDefinitions == Init /\ [][NextDefinitions]_vars

(***************************************************************************)
(* Properties of replace.                                                  *)
(***************************************************************************)
\* A rule applies to e at its root: its pattern matches and its guard holds.
Applies(rule, e) ==
    LET sub == match(rule.lhs, e)
    IN  sub.ok /\ (rule.condition = "undefined" \/ condition(rule.condition, sub.sub))

\* The rules of rs that apply to e at its root, by index.
Applicable(rs, e) == { i \in 1..Len(rs) : Applies(rs[i], e) }

\* The first rule, in insertion order, that applies to e (0: none).
FirstMatch(rs, e) ==
    IF Applicable(rs, e) = {} THEN 0
    ELSE CHOOSE i \in Applicable(rs, e) : \A j \in Applicable(rs, e) : i <= j

\* The first rule that applies to e in the cyclic order from+1, ..., n, 1, ..., from.
CyclicFirst(rs, e, from) ==
    LET after == { i \in Applicable(rs, e) : i > from }
    IN  IF after # {} THEN CHOOSE i \in after : \A j \in after : i <= j
        ELSE FirstMatch(rs, e)

\* C1 (as claimed): the rule applied at every step is the first rule, in
\* insertion order, that applies to the current root: after a rule fired the
\* scan restarts from the first rule against the new root.
C1_FirstRuleApplied ==
    lastFired # 0 => lastFired = FirstMatch(rules, lastRoot)

\* C1 (amended): after a rule fired the scan goes on with the next rule against
\* the new root and wraps around to the first rule only at the end of the pass:
\* the rule applied is the first rule that applies to the current root in the
\* cyclic order that starts just after the rule that produced that root (from
\* the first rule for the input).
C1_CyclicScan ==
    lastFired # 0 => lastFired = CyclicFirst(rules, lastRoot, lastPos)

\* A rule fired on a root that an earlier rule of the same pass had produced,
\* although a rule before it applies to that root too.
C1_Witness ==
    /\ lastFired # 0
    /\ lastPos # 0
    /\ lastFired > lastPos
    /\ FirstMatch(rules, lastRoot) < lastFired

\* C2: when no rule applies to the input at its root (no pattern matches, or
\* the guard does not hold), replace returns the input unchanged after a
\* single pass over the rules.
C2_NoRuleApplies ==
    (pc = "done" /\ Applicable(rules, input) = {}) => (expr = input /\ passes = 1)

\* replace returned for a rule set with a rule whose pattern matches the input
\* but whose guard does not hold, and no rule applies.
C2_Witness ==
    /\ pc = "done"
    /\ Applicable(rules, input) = {}
    /\ \E i \in 1..Len(rules) : match(rules[i].lhs, input).ok
    /\ expr = input

\* C3: rules are matched against the root only: with the single rule
\* f(x) -> g(x), f(f(a)) is rewritten to g(f(a)); and nothing is rewritten at
\* all unless some rule applies to the root of the input.
C3_RootOnly ==
    /\ (/\ pc = "done"
        /\ rules = <<Rule(Fn("f", <<X>>), Fn("g", <<X>>), "undefined")>>
        /\ input = Fn("f", <<Fn("f", <<A>>)>>))
          => expr = Fn("g", <<Fn("f", <<A>>)>>)
    /\ (expr # input) => (Applicable(rules, input) # {})
    /\ (lastFired # 0) => Applies(rules[lastFired], lastRoot)

\* replace returned g(f(a)) for f(f(a)) under the single rule f(x) -> g(x).
C3_Witness ==
    /\ pc = "done"
    /\ rules = <<Rule(Fn("f", <<X>>), Fn("g", <<X>>), "undefined")>>
    /\ input = Fn("f", <<Fn("f", <<A>>)>>)
    /\ expr = Fn("g", <<Fn("f", <<A>>)>>)

\* C18: whenever replace returns, no rule applies at the root of the result
\* (applyRule is null for every rule of the set), and the result is an
\* expression, never null.
C18_RootFixpoint ==
    pc = "done" =>
        /\ expr # Null
        /\ \A i \in 1..Len(rules) : applyRule(rules[i], expr) = Null

C18_Witness ==
    /\ pc = "done"
    /\ expr # input
    /\ passes >= 2
    /\ Len(rules) >= 2

(***************************************************************************)
(* Properties of the argument validators.                                  *)
(***************************************************************************)
\* C4: in strict mode checkArity returns a list of length max(count, length of
\* ops), ops being the operands once sequences are flattened: the operands up
\* to count are kept in their order, the positions up to count that have no
\* operand hold 'missing' errors, and every operand beyond count is replaced at
\* its own position by an 'unexpected-argument' error.
C4_CheckArity ==
    (fn = "checkArity" /\ strict) =>
        LET xs == flatten(ops, "")
            n == Len(xs)
            r == returned.xs
        IN  /\ Len(r) = Max(count, n)
            /\ \A i \in 1..Min(count, n) : r[i] = xs[i]
            /\ \A i \in (n + 1)..count : r[i] = Error("missing", "")
            /\ \A i \in (count + 1)..n : r[i] = Error("unexpected-argument", xs[i].id)

\* checkArity was called in strict mode with more operands than count, and the
\* last one was flagged.
C4_Witness ==
    /\ fn = "checkArity"
    /\ strict
    /\ count >= 1
    /\ Len(flatten(ops, "")) > count
    /\ returned.xs[Len(returned.xs)].code = "unexpected-argument"
    /\ returned.xs[1] = flatten(ops, "")[1]
\* The operands checkNumericArgs works on, and the count it checks them against.
NumericOps == flatten(ops, flattenHead)
NumericCount == IF count = -1 THEN Len(NumericOps) ELSE count

\* A position of the list returned is invalid: an error node (missing,
\* unexpected argument, type mismatch) or an operand that is not valid.
InvalidPosition(i) == IsError(returned.xs[i]) \/ ~returned.xs[i].isValid

\* A valid finite indexable collection whose every element is numeric.
NumericCollection(x) ==
    /\ x.isValid
    /\ isFiniteIndexableCollection(x)
    /\ \A j \in 1..Len(x.elems) : x.elems[j]

\* C5: in strict mode checkNumericArgs commits the inference all-or-nothing:
\* infer is called only if no position of the result is invalid; when some
\* position is invalid, infer is called on no operand.
C5_AllOrNothing ==
    (fn = "checkNumericArgs" /\ strict) =>
        /\ (\E i \in 1..Len(returned.xs) : InvalidPosition(i)) => inferCalls = {}
        /\ (\A i \in 1..Len(returned.xs) : ~InvalidPosition(i)) =>
              \A i \in 1..Len(returned.xs) :
                 IF isFiniteIndexableCollection(returned.xs[i])
                 THEN \A j \in 1..Len(returned.xs[i].elems) :
                         \E c \in inferCalls : c[1] = i /\ c[2] = j
                 ELSE \E c \in inferCalls : c[1] = i /\ c[2] = 0

\* checkNumericArgs was called in strict mode on a list with an operand that
\* would be inferred (an unknown symbol) and an operand that is mistyped.
C5_Witness ==
    /\ fn = "checkNumericArgs"
    /\ strict
    /\ \E i \in 1..Len(returned.xs) : returned.xs[i] = OpX
    /\ \E i \in 1..Len(returned.xs) : returned.xs[i].code = "type-mismatch"
    /\ inferCalls = {}

\* C6 (as claimed): in strict mode every operand that is a valid finite
\* indexable collection of numbers is passed through at its position,
\* whatever the other operands are.
C6_CollectionPassThrough ==
    (fn = "checkNumericArgs" /\ strict) =>
        \A i \in 1..Min(Len(NumericOps), NumericCount) :
            NumericCollection(NumericOps[i]) => returned.xs[i] = NumericOps[i]
\* validateArguments was called with a signature, in strict mode.
SignatureChecked == fn = "validateArguments" /\ strict /\ signature.kind = "signature"

\* The number of parameters the signature declares, the rest parameter aside.
Declared == Len(signature.args) + Len(signature.optArgs)

\* C7 (as claimed): in lazy mode validateArguments passes every operand bound
\* to a required, an optional or the rest parameter through unchecked, and
\* calls infer on no operand.
C7_LazyNoInference ==
    (SignatureChecked /\ lazy) =>
        /\ inferCalls = {}
        /\ ~returned.null =>
              \A i \in 1..Len(ops) :
                 (signature.restArg # "" \/ i <= Declared) => returned.xs[i] = ops[i]

\* C8: validateArguments calls infer only on the path where it returns null:
\* when a list is returned no infer call was made; and when threadable is set,
\* infer is never called on a finite indexable collection.
C8_InferOnlyWhenValid ==
    (fn = "validateArguments") =>
        /\ ~returned.null => inferCalls = {}
        /\ threadable =>
              \A c \in inferCalls : ~isFiniteIndexableCollection(ops[c[1]])
        /\ \A c \in inferCalls : c[1] \in 1..Len(ops) /\ c[2] = 0

\* validateArguments returned null for a threadable function with a collection
\* among its operands, and inferred the type of another operand.
C8_Witness ==
    /\ SignatureChecked
    /\ threadable
    /\ ~lazy
    /\ returned.null
    /\ \E i \in 1..Len(ops) : isFiniteIndexableCollection(ops[i])
    /\ inferCalls # {}

\* C9: in strict mode, for a signature with no rest parameter, every operand
\* beyond the required and optional parameters is replaced by an
\* 'unexpected-argument' error at its position, the list returned is not null,
\* its length is max(number of required parameters, number of operands), and
\* every operand at a declared position is there as itself or as an error node.
C9_UnexpectedArguments ==
    (SignatureChecked /\ signature.restArg = "") =>
        /\ Len(ops) > Declared => ~returned.null
        /\ ~returned.null =>
              /\ Len(returned.xs) = Max(Len(signature.args), Len(ops))
              /\ \A i \in (Declared + 1)..Len(ops) :
                    returned.xs[i] = Error("unexpected-argument", ops[i].id)
              /\ \A i \in 1..Min(Declared, Len(ops)) :
                    \/ returned.xs[i] = ops[i]
                    \/ IsError(returned.xs[i]) /\ returned.xs[i].id = ops[i].id

\* validateArguments was given an operand for every required and optional
\* parameter, all of them valid, and one operand more.
C9_Witness ==
    /\ SignatureChecked
    /\ signature.restArg = ""
    /\ Len(signature.args) = 1
    /\ Len(signature.optArgs) = 1
    /\ Len(ops) = 3
    /\ ~returned.null
    /\ returned.xs[1] = ops[1]
    /\ returned.xs[2] = ops[2]
    /\ returned.xs[3].code = "unexpected-argument"
(***************************************************************************)
(* Properties of the comparison.                                           *)
(***************************************************************************)
\* C10 (as claimed): for all real numeric values a and b (number literals and
\* known constant symbols such as Pi), compare(a, b) is in {-1, 0, 1} and is
\* the native numeric ordering; compare(a, a) = 0 and equal(a, a) is true.
C10_NumericOrdering ==
    /\ (cfn = "compare" /\ IsRealNumeric(ca) /\ IsRealNumeric(cb)) =>
          /\ cres.defined
          /\ cres.v \in {-1, 0, 1}
          /\ cres.v = Sign(numericValue(ca) - numericValue(cb))
    /\ (cfn = "equal" /\ IsRealNumeric(ca) /\ ca = cb) => eres = "true"

Derived == {"equal", "less", "lessEqual", "greater", "greaterEqual"}

IsUnbound(x) == x.k = "sym" /\ ~IsRealNumeric(x)

\* The operand pairs the comparison cannot decide: two distinct unbound
\* symbols, an unbound symbol against a number, or an unbound symbol against
\* an application of an unknown function.
Undecidable(x, y) ==
    \/ IsUnbound(x) /\ IsUnbound(y) /\ x # y
    \/ IsUnbound(x) /\ (y.k = "num" \/ y = Fn("Foo", <<>>))
    \/ IsUnbound(y) /\ (x.k = "num" \/ x = Fn("Foo", <<>>))

C14_ParityExclusive ==
    (ffn = "normalizeFlags" /\ flagsGiven.defined) =>
        /\ normalized.defined
        /\ ~(normalized.even = "true" /\ normalized.odd = "true")
        /\ flagsGiven.odd = "true" => normalized.even = "false"
        /\ (flagsGiven.even = "true" /\ flagsGiven.odd # "true") => normalized.odd = "false"
        /\ flagsGiven.odd # "true" => normalized.even = flagsGiven.even
        /\ flagsGiven.even # "true" => normalized.odd = flagsGiven.odd
        /\ normalized.zero = flagsGiven.zero
        /\ normalized.positive = flagsGiven.positive
        /\ normalized.integer = flagsGiven.integer
        /\ flags = flagsGiven

C14_Witness ==
    /\ ffn = "normalizeFlags"
    /\ flagsGiven.defined
    /\ flagsGiven.even = "true"
    /\ flagsGiven.odd = "true"
    /\ flagsGiven.zero = "false"
    /\ normalized.even = "false"
    /\ normalized.odd = "true"

(***************************************************************************)
(* Properties of the definition classifiers.                               *)
(***************************************************************************)
\* C19 (as claimed): for every definition record, isSymbolDefinition and
\* isFunctionDefinition never both return true: a record that mixes symbol
\* fields and function fields is classified as exactly one kind or rejected.
C19_ExclusiveClassification ==
    ~(isSymbol = "true" /\ isFunction = "true")
(***************************************************************************)
(* Properties of canonicalAngle.                                           *)
(***************************************************************************)
\* x <= y and x < y on fractions
Leq(x, y) == x[1] * y[2] <= y[1] * x[2]
Less(x, y) == x[1] * y[2] < y[1] * x[2]

IsInteger(x) == x[1] % x[2] = 0

\* C15 (as claimed): canonicalAngle returns the angle in [0, 2 pi) that is
\* equivalent to the given angle modulo 2 pi; when the angle is k * pi + t
\* with an integer k, negative ones included, the coefficient of pi in the
\* result is k mod 2 taken in {0, 1}.
C15_CanonicalRange ==
    (gfn = "canonicalAngle" /\ canonical.kind = "number") =>
        LET value == add(mul(canonical.k, PiValue), canonical.t)
            k == getPiTerm(angleToRadians(angularUnit, angle)).k
        IN  /\ Leq(<<0, 1>>, value)
            /\ Less(value, mul(<<2, 1>>, PiValue))
            /\ IsInteger(k) =>
                  /\ canonical.k[1] = (k[1] \div k[2]) % 2 * canonical.k[2]
(***************************************************************************)
(* Properties of expand.ts.                                                *)
(***************************************************************************)
\* The binomial coefficient, by the product formula.
RECURSIVE Binomial(_, _)
Binomial(n, k) == IF k = 0 THEN 1 ELSE (Binomial(n, k - 1) * (n - k + 1)) \div k

RECURSIVE Factorial(_)
Factorial(n) == IF n = 0 THEN 1 ELSE n * Factorial(n - 1)

RECURSIVE SumTo(_, _)
SumTo(t, i) == IF i = 0 THEN 0 ELSE t[i] + SumTo(t, i - 1)

\* The n-tuples of non-negative integers that sum to exp.
Tuples(n, exp) == { t \in [1..n -> 0..exp] : SumTo(t, n) = exp }

LexLess(s, t) ==
    \E i \in 1..Len(s) : s[i] < t[i] /\ \A j \in 1..(i - 1) : s[j] = t[j]

\* C20: under any sequence of calls the table holds the consecutive rows
\* 0..len-1 of Pascal's triangle (row r has r + 1 entries, entry k is the
\* binomial coefficient C(r, k)), a call only appends rows to it, and
\* choose(n, k) with 0 <= k <= n returns C(n, k) whatever was called before.
C20_TableCorrect ==
    /\ [](/\ \A r \in 1..Len(binomials) :
                /\ Len(binomials[r]) = r
                /\ \A k \in 1..r : binomials[r][k] = Binomial(r - 1, k - 1)
          /\ efn = "choose" => eret = Binomial(eargs[1], eargs[2]))
    /\ [][/\ Len(binomials') >= Len(binomials)
          /\ SubSeq(binomials', 1, Len(binomials)) = binomials]_vars

C20_Witness ==
    /\ efn = "choose"
    /\ eargs = <<9, 4>>
    /\ Len(binomials) = 11
    /\ eret = 126

\* C16: powers(n, exp) yields exactly the n-tuples of non-negative integers
\* that sum to exp, each once, C(exp + n - 1, n - 1) of them, in ascending
\* lexicographic order, and then ends.
C16_Powers ==
    efn = "powers" =>
        /\ \A i \in 1..Len(eret) : eret[i] \in Tuples(eargs[1], eargs[2])
        /\ \A t \in Tuples(eargs[1], eargs[2]) : \E i \in 1..Len(eret) : eret[i] = t
        /\ \A i \in 1..(Len(eret) - 1) : LexLess(eret[i], eret[i + 1])
        /\ Len(eret) = Binomial(eargs[2] + eargs[1] - 1, eargs[1] - 1)

C16_Witness ==
    /\ efn = "powers"
    /\ eargs = <<3, 4>>
    /\ Len(eret) = 15
    /\ eret[1] = <<0, 0, 4>>
    /\ eret[15] = <<4, 0, 0>>

\* The power of addend x in a product term: 1 when x is a factor, n when
\* Power(x, n) is one, 0 when x does not occur.
PowerOf(term, x) ==
    IF \E i \in 2..Len(term.a) : term.a[i] = x THEN 1
    ELSE IF \E i \in 2..Len(term.a) : headOf(term.a[i]) = "Power" /\ term.a[i].a[1] = x
    THEN term.a[CHOOSE i \in 2..Len(term.a) :
                    headOf(term.a[i]) = "Power" /\ term.a[i].a[1] = x].a[2].n
    ELSE 0

RECURSIVE ProductOfFactorials(_, _)
ProductOfFactorials(t, i) ==
    IF i = 0 THEN 1 ELSE Factorial(t[i]) * ProductOfFactorials(t, i - 1)

RECURSIVE SumOfCoefficients(_, _)
SumOfCoefficients(ts, i) ==
    IF i = 0 THEN 0 ELSE ts[i].a[1].n + SumOfCoefficients(ts, i - 1)

RECURSIVE IntPower(_, _)
IntPower(n, e) == IF e = 0 THEN 1 ELSE n * IntPower(n, e - 1)

\* C12: for a base that is a sum of n addends and an exponent exp >= 2,
\* expandPower returns a sum with exactly one product term per tuple
\* (k1..kn) of non-negative integers summing to exp; the term starts with
\* the coefficient exp! / (k1! ... kn!), followed by addend i bare when
\* ki = 1, as Power(addend i, ki) when ki >= 2 and not at all when ki = 0;
\* the coefficients sum to n^exp.
C12_Multinomial ==
    (efn = "expandPower" /\ headOf(eargs[1]) = "Add" /\ eargs[2] >= 2) =>
        LET terms == eargs[1].a
            n == Len(terms)
            exp == eargs[2]
            K(term) == [i \in 1..n |-> PowerOf(term, terms[i])]
        IN  /\ headOf(eret) = "Add"
            /\ Len(eret.a) = Cardinality(Tuples(n, exp))
            /\ \A j \in 1..Len(eret.a) :
                  LET term == eret.a[j]
                  IN  /\ headOf(term) = "Multiply"
                      /\ term.a[1].k = "num"
                      /\ K(term) \in Tuples(n, exp)
                      /\ term.a[1].n * ProductOfFactorials(K(term), n) = Factorial(exp)
                      /\ Len(term.a) - 1 = Cardinality({ i \in 1..n : K(term)[i] # 0 })
                      /\ \A i \in 2..Len(term.a) :
                            \/ \E x \in 1..n : term.a[i] = terms[x]
                            \/ /\ headOf(term.a[i]) = "Power"
                               /\ term.a[i].a[2].n >= 2
                      /\ \A i \in 1..(j - 1) : K(eret.a[i]) # K(term)
            /\ SumOfCoefficients(eret.a, Len(eret.a)) = IntPower(n, exp)

C12_Witness ==
    /\ efn = "expandPower"
    /\ eargs = <<Fn("Add", <<A, B, C>>), 2>>
    /\ Len(eret.a) = 6
    /\ eret.a[5] = Fn("Multiply", <<Num(2), A, B>>)
    /\ eret.a[6] = Fn("Multiply", <<Num(1), Fn("Power", <<A, Num(2)>>)>>)

\* The value of an expression as a fraction, the symbols taken from env.
RECURSIVE Val(_, _)
Val(e, env) ==
    IF e.k = "num" THEN <<e.n, 1>>
    ELSE IF e.k = "sym" THEN <<env[e.h], 1>>
    ELSE IF e.h = "Negate" THEN neg(Val(e.a[1], env))
    ELSE IF e.h = "Divide" THEN div(Val(e.a[1], env), Val(e.a[2], env))
    ELSE IF e.h = "Power"
    THEN IF e.a[2].n = 0 THEN <<1, 1>>
         ELSE mul(Val(e.a[1], env), Val(Fn("Power", <<e.a[1], Num(e.a[2].n - 1)>>), env))
    ELSE IF Len(e.a) = 1 THEN Val(e.a[1], env)
    ELSE IF e.h = "Add" THEN add(Val(e.a[1], env), Val([e EXCEPT !.a = Tail(e.a)], env))
    ELSE mul(Val(e.a[1], env), Val([e EXCEPT !.a = Tail(e.a)], env))

Same(x, y) == x[1] * y[2] = y[1] * x[2]

Envs ==
    { [a |-> 2, b |-> 3, c |-> 5, d |-> 7], [a |-> 3, b |-> 7, c |-> 2, d |-> 11] }

\* C17: expandPower of any base with exponent 0 is one; with a negative
\* exponent it is the inverse of expandPower(base, -exp), or null when that
\* is null; on a Negate base with an exponent >= 2 it is
\* expandPower(operand, exp) when exp is even, its negation when exp is odd,
\* and null when expandPower(operand, exp) is null.  A result that is not
\* null has the value of the power (checked up to the third power).
C17_NegateAndSign ==
    efn = "expandPower" =>
        LET base == eargs[1]
            exp == eargs[2]
        IN  /\ exp = 0 => eret = One
            /\ exp < 0 =>
                  LET r == expandPower(binomials, base, -exp).v
                  IN  eret = IF r = Null THEN Null ELSE ce_inv(r)
            /\ (headOf(base) = "Negate" /\ exp >= 2) =>
                  LET r == expandPower(binomials, base.a[1], exp).v
                  IN  eret = IF r = Null THEN Null
                             ELSE IF exp % 2 = 0 THEN r ELSE ce_neg(r)
            /\ (eret # Null /\ exp \in (-3)..3 /\ headOf(base) # "Equal") =>
                  \A env \in Envs :
                      Same(Val(eret, env),
                           IF exp >= 0 THEN Val(ce_pow(base, exp), env)
                           ELSE div(<<1, 1>>, Val(ce_pow(base, -exp), env)))

C17_Witness ==
    /\ efn = "expandPower"
    /\ eargs = <<Fn("Negate", <<Fn("Add", <<A, B>>)>>), 3>>
    /\ headOf(eret) = "Negate"
    /\ headOf(eret.a[1]) = "Add"
    /\ Len(eret.a[1].a) = 4

\* The addends of an operand: an operand that is not a sum is its own only
\* addend.
Addends(e) == IF headOf(e) = "Add" THEN e.a ELSE <<e>>

RECURSIVE Concat(_)
Concat(ss) == IF ss = <<>> THEN <<>> ELSE ss[1] \o Concat(Tail(ss))

\* The summands of a result, nested sums flattened and the negation of a sum
\* read as the sum of the negations.
RECURSIVE Summands(_)
Summands(e) ==
    IF headOf(e) = "Add" THEN Concat([i \in 1..Len(e.a) |-> Summands(e.a[i])])
    ELSE IF headOf(e) = "Negate" /\ headOf(e.a[1]) = "Add"
    THEN LET s == Summands(e.a[1]) IN [i \in 1..Len(s) |-> Fn("Negate", <<s[i]>>)]
    ELSE <<e>>

\* The pairs of addends of lhs and rhs, the addends of lhs outermost.
Pairs(lhs, rhs) ==
    LET xs == Addends(lhs)
        ys == Addends(rhs)
    IN  [p \in 1..(Len(xs) * Len(ys)) |->
            <<xs[((p - 1) \div Len(ys)) + 1], ys[((p - 1) % Len(ys)) + 1]>>]

IsPairwiseCall ==
    /\ efn = "distribute"
    /\ eargs[1] = "Multiply"
    /\ Len(eargs[2]) = 2
    /\ headOf(eargs[2][1]) \notin {"Negate", "Divide"}
    /\ headOf(eargs[2][2]) \notin {"Negate", "Divide"}

\* The result is the sum of the products of the pairs, one summand per pair,
\* in the order of the pairs; without a sum it is the plain product.
IsSumOfProducts ==
    LET lhs == eargs[2][1]
        rhs == eargs[2][2]
        ps == Pairs(lhs, rhs)
        s == Summands(eret)
    IN  /\ Len(s) = Len(ps)
        /\ \A p \in 1..Len(ps) : \A env \in Envs :
              Same(Val(s[p], env), mul(Val(ps[p][1], env), Val(ps[p][2], env)))
        /\ (headOf(lhs) # "Add" /\ headOf(rhs) # "Add") => eret = Fn("Multiply", <<lhs, rhs>>)

\* C13 (as claimed): when neither operand is a Negate or a Divide, distribute
\* of lhs and rhs returns the sum of the products of every addend of lhs with
\* every addend of rhs, each pair once, the addends of lhs outermost; with no
\* sum on either side it is Multiply(lhs, rhs).
C13_PairwiseAsClaimed == IsPairwiseCall => IsSumOfProducts

HasDivideAddend(e) == \E i \in 1..Len(Addends(e)) : headOf(Addends(e)[i]) = "Divide"

HasPlainAddends(e) ==
    \A i \in 1..Len(Addends(e)) : headOf(Addends(e)[i]) \notin {"Negate", "Divide"}

\* C13 (amended): the same, provided that no addend of lhs is a Divide when
\* rhs is a sum; and when no addend of either operand is a Negate or a Divide
\* the summand of the pair (x, y) is Multiply(x, y) itself.
C13_Pairwise ==
    (IsPairwiseCall /\ ~(headOf(eargs[2][2]) = "Add" /\ HasDivideAddend(eargs[2][1]))) =>
        /\ IsSumOfProducts
        /\ (HasPlainAddends(eargs[2][1]) /\ HasPlainAddends(eargs[2][2])) =>
              \A p \in 1..Len(Summands(eret)) :
                  Summands(eret)[p] = Fn("Multiply", Pairs(eargs[2][1], eargs[2][2])[p])

C13_Witness ==
    /\ efn = "distribute"
    /\ eargs = <<"Multiply", <<Fn("Add", <<A, B>>), Fn("Add", <<C, D>>)>> >>
    /\ Len(Summands(eret)) = 4
    /\ Summands(eret)[2] = Fn("Multiply", <<A, D>>)
    /\ Summands(eret)[3] = Fn("Multiply", <<B, C>>)
====
